---- MODULE Spec2Model ----
(***************************************************************************)
(* Model of the remotehttp client of toolexec-integrations: one Execute    *)
(* call on a client built by NewClient, with its retry loop (doRequest),   *)
(* one HTTP attempt (executeRequest) and the SSE stream merger             *)
(* (readStream).  Text is modelled by TLA+ strings, Go errors by records   *)
(* that keep the set of sentinels errors.Is can find in the chain.         *)
(***************************************************************************)
EXTENDS Integers, Sequences, FiniteSets, TLC

(* ---- bounds of the model ---------------------------------------------- *)

\* largest Config.MaxRetries a caller configures (smallest is -1)
MaxCfgRetries == 2
\* most polls waitForCompletion starts while the context is live (SpecKube)
MaxPolls == 3
\* most events one response stream delivers to a concurrent call
\* (SpecConcurrent)
MaxCallEvents == 1
\* most lines the scanner hands to the decoder (SpecDecoder)
MaxLines == 4
\* latest time the clock reaches (SpecClock)
MaxClock == 2
\* most events one response stream delivers before it ends, when a single
\* configuration is explored (SpecStream)
MaxEvents == 3
\* the same, when every configuration is explored (Spec)
MaxRetryEvents == 2

(* ---- program constants ------------------------------------------------ *)

DefaultMaxRetries == 3

(* ---- Go errors -------------------------------------------------------- *)

\* the nil error
NilErr == [is |-> {}, kind |-> "nil", detail |-> "", status |-> 0]

\* ctx.Err() of a canceled or expired context; net/http and the body reader
\* return an error whose chain holds it
CtxError(c) == [is |-> {c}, kind |-> "context",
                detail |-> IF c = "Canceled" THEN "context canceled"
                           ELSE "context deadline exceeded",
                status |-> 0]

\* a transport or I/O failure that has nothing to do with the context
IOError == [is |-> {}, kind |-> "io", detail |-> "connection reset", status |-> 0]

\* fmt.Errorf("%w: <what>: %v", sentinel, err): only the sentinel stays in
\* the chain, the inner error is formatted into the message
Errorf(sentinel, what, inner) ==
    [is |-> {sentinel}, kind |-> what, detail |-> inner.detail, status |-> 0]

\* fmt.Errorf("%w: <what> %d: %s", sentinel, code, body)
ErrorfStatus(sentinel, what, code) ==
    [is |-> {sentinel}, kind |-> what, detail |-> "", status |-> code]

\* fmt.Errorf("%w: %s", sentinel, text)
ErrorfText(sentinel, text) ==
    [is |-> {sentinel}, kind |-> "event", detail |-> text, status |-> 0]

\* errors.Is(err, target)
ErrorsIs(err, target) == target \in err.is

\* variant: a 4xx answer is final
isRetryableNo4xx(err) ==
    IF err = NilErr THEN FALSE
    ELSE IF ErrorsIs(err, "DeadlineExceeded") \/ ErrorsIs(err, "Canceled") THEN FALSE
    ELSE err.kind # "status"

isRetryable(err) ==
    IF err = NilErr THEN FALSE
    ELSE IF ErrorsIs(err, "DeadlineExceeded") \/ ErrorsIs(err, "Canceled") THEN FALSE
    ELSE TRUE

(* ---- results ---------------------------------------------------------- *)

\* remote.ExecuteResultPayload{}
ZeroPayload == [Value |-> "", Stdout |-> "", Stderr |-> "",
                DurationMillis |-> 0, ToolCalls |-> <<>>]

\* remote.RemoteResponse{}: Result is a nil pointer
EmptyResponse == [hasResult |-> FALSE, Result |-> ZeroPayload]

\* remote.RemoteResponse{Result: &p}
ResponseOf(p) == [hasResult |-> TRUE, Result |-> p]

FieldNames == {"Value", "Stdout", "Stderr", "DurationMillis", "ToolCalls"}

\* a JSON document: the object's members that are present, and their values
NotJSON == [valid |-> FALSE, present |-> {}, v |-> ZeroPayload]
Doc(present, v) == [valid |-> TRUE, present |-> present, v |-> v]

\* json.Unmarshal(data, &payload) into a zero payload: absent members keep
\* the zero value
Unmarshal(doc) ==
    [Value          |-> IF "Value" \in doc.present THEN doc.v.Value ELSE "",
     Stdout         |-> IF "Stdout" \in doc.present THEN doc.v.Stdout ELSE "",
     Stderr         |-> IF "Stderr" \in doc.present THEN doc.v.Stderr ELSE "",
     DurationMillis |-> IF "DurationMillis" \in doc.present THEN doc.v.DurationMillis ELSE 0,
     ToolCalls      |-> IF "ToolCalls" \in doc.present THEN doc.v.ToolCalls ELSE <<>>]

(* ---- the stream merger (readStream) ----------------------------------- *)

\* sseEvent{Name, Data}; json is what json.Unmarshal makes of Data
Event(name, data, doc) == [Name |-> name, Data |-> data, json |-> doc]

\* the result documents a server sends in a `result` event
ResultDocs ==
    { Doc({}, ZeroPayload),
      Doc({"Value", "Stdout", "DurationMillis"},
          [ZeroPayload EXCEPT !.Value = "ok", !.DurationMillis = 5]),
      Doc({"Value", "Stdout", "Stderr", "ToolCalls"},
          [ZeroPayload EXCEPT !.Value = "v2", !.Stdout = "hello", !.Stderr = "E",
                              !.ToolCalls = <<"t1">>]) }

\* the events a response stream can deliver
Events ==
    { Event("stdout", d, NotJSON) : d \in {"a", "b", "hello"} }
      \cup { Event("stderr", "x", NotJSON) }
      \cup { Event("result", "{..}", doc) : doc \in ResultDocs }
      \cup { Event("result", "oops", NotJSON) }
      \cup { Event("error", "boom", NotJSON) }
      \cup { Event("ping", "p", NotJSON) }
      \cup { Event("", "q", NotJSON) }

\* variant: the parsed payload replaces the accumulation without backfill
MergeResultNoBackfill(result, doc) == Unmarshal(doc)

\* case "result": the parsed payload, its empty stdout, stderr and tool
\* calls taken from the accumulation, becomes the accumulation
MergeResult(result, doc) ==
    LET payload == Unmarshal(doc)
        p1 == IF payload.Stdout = "" THEN [payload EXCEPT !.Stdout = result.Stdout]
              ELSE payload
        p2 == IF p1.Stderr = "" THEN [p1 EXCEPT !.Stderr = result.Stderr] ELSE p1
        p3 == IF Len(p2.ToolCalls) = 0 THEN [p2 EXCEPT !.ToolCalls = result.ToolCalls]
              ELSE p2
    IN  p3

\* variant: a `result` event that does not parse still replaces the
\* accumulation, by the zero payload
MergeEventBadResultResets(result, event) ==
    CASE event.Name = "stdout" -> [result EXCEPT !.Stdout = result.Stdout \o event.Data]
      [] event.Name = "stderr" -> [result EXCEPT !.Stderr = result.Stderr \o event.Data]
      [] event.Name = "result" -> MergeResult(result, event.json)
      [] OTHER -> result

\* variant: stdout and stderr data replace the accumulated text
MergeEventReplaces(result, event) ==
    CASE event.Name = "stdout" -> [result EXCEPT !.Stdout = event.Data]
      [] event.Name = "stderr" -> [result EXCEPT !.Stderr = event.Data]
      [] event.Name = "result" ->
            IF event.json.valid THEN MergeResult(result, event.json) ELSE result
      [] OTHER -> result

\* the switch of readStream for every event but `error`
\* variant: an event with another name is taken as output
MergeEventDefaultStdout(result, event) ==
    CASE event.Name = "stdout" -> [result EXCEPT !.Stdout = result.Stdout \o event.Data]
      [] event.Name = "stderr" -> [result EXCEPT !.Stderr = result.Stderr \o event.Data]
      [] event.Name = "result" ->
            IF event.json.valid THEN MergeResult(result, event.json) ELSE result
      [] OTHER -> [result EXCEPT !.Stdout = result.Stdout \o event.Data]

MergeEvent(result, event) ==
    CASE event.Name = "stdout" -> [result EXCEPT !.Stdout = result.Stdout \o event.Data]
      [] event.Name = "stderr" -> [result EXCEPT !.Stderr = result.Stderr \o event.Data]
      [] event.Name = "result" ->
            IF event.json.valid THEN MergeResult(result, event.json) ELSE result
      [] OTHER -> result

(* ---- the client -------------------------------------------------------- *)

\* the Config values a caller passes to NewClient
Configs ==
    [Endpoint : {"", "http://rt"}, AuthToken : {"", "token"},
     MaxRetries : -1 .. MaxCfgRetries, Logger : BOOLEAN]

NoClient == [valid |-> FALSE, endpoint |-> "", authToken |-> "",
             maxRetries |-> 0, logger |-> FALSE]

\* variant: only a negative Config.MaxRetries gets the default
RetryBoundZeroKept(n) == IF n < 0 THEN DefaultMaxRetries ELSE n

\* the retry bound NewClient stores for Config.MaxRetries
RetryBound(n) == IF n <= 0 THEN DefaultMaxRetries ELSE n

\* variant: the endpoint is not looked at
NewClientAnyEndpoint(c) ==
    [client |-> [valid |-> TRUE, endpoint |-> c.Endpoint,
                 authToken |-> c.AuthToken,
                 maxRetries |-> RetryBound(c.MaxRetries),
                 logger |-> c.Logger],
     err |-> NilErr]

\* NewClient: the client, or no client and ErrRemoteNotAvailable
NewClient(c) ==
    IF c.Endpoint = ""
    THEN [client |-> NoClient, err |-> [NilErr EXCEPT !.is = {"ErrRemoteNotAvailable"},
                                                      !.kind = "not available"]]
    ELSE [client |-> [valid |-> TRUE, endpoint |-> c.Endpoint,
                      authToken |-> c.AuthToken,
                      maxRetries |-> RetryBound(c.MaxRetries),
                      logger |-> c.Logger],
          err |-> NilErr]

\* json.Marshal(payload): the bytes every attempt of the call sends
Marshal(wantStream) == IF wantStream THEN "{code,stream}" ELSE "{code}"

\* HMAC-SHA256 of timestamp, ".", payload under the token, base64 encoded
Signature(token, timestamp, payload) == <<token, timestamp, ".", payload>>

NoSignature == <<"", 0, "", "">>

\* variant: the timestamp of the call's first request is kept for the retries
TimestampOfFirst(t, earlier) == IF earlier = <<>> THEN t ELSE earlier[1].timestamp

\* time.Now().UTC().Format(time.RFC3339Nano), read when the request is
\* signed; earlier holds what the call's earlier requests carried
Timestamp(t, earlier) == t

\* what one request carries: its body and, with a token, the timestamp and
\* signature signRequest puts in its headers
signRequest(payload, token, t, earlier) ==
    IF token = ""
    THEN [body |-> payload, signed |-> FALSE, timestamp |-> 0,
          signature |-> NoSignature]
    ELSE [body |-> payload, signed |-> TRUE,
          timestamp |-> Timestamp(t, earlier),
          signature |-> Signature(token, Timestamp(t, earlier), payload)]

\* variant: signRequest is called whether or not a token is configured
RequestHeadersAlwaysSigned(token, wantStream) ==
    {"Content-Type", "X-Toolruntime-Timestamp", "X-Toolruntime-Signature"}
      \cup (IF wantStream THEN {"Accept"} ELSE {})
      \cup (IF token # "" THEN {"Authorization"} ELSE {})

\* the headers executeRequest sets on one outgoing request
RequestHeaders(token, wantStream) ==
    {"Content-Type"}
      \cup (IF wantStream THEN {"Accept"} ELSE {})
      \cup (IF token # "" THEN {"Authorization", "X-Toolruntime-Timestamp",
                                "X-Toolruntime-Signature"}
            ELSE {})

\* the status codes and content types a server answers with
Statuses == {200, 304, 404, 500, 503}
ContentTypes ==
    {"application/json", "text/event-stream", "text/event-stream; charset=utf-8"}

\* strings.Contains(resp.Header.Get("Content-Type"), "text/event-stream")
IsEventStream(ct) ==
    ct \in {"text/event-stream", "text/event-stream; charset=utf-8"}

\* the buffered bodies a server answers with: text that is not JSON, an
\* envelope without a result member, an envelope with one
Bodies ==
    { [valid |-> FALSE, hasResult |-> FALSE, result |-> NotJSON],
      [valid |-> TRUE, hasResult |-> FALSE, result |-> NotJSON],
      [valid |-> TRUE, hasResult |-> TRUE,
       result |-> Doc({"Stdout"}, [ZeroPayload EXCEPT !.Stdout = "ok"])] }

\* json.Unmarshal(body, &response) of a valid envelope: Result stays nil
\* when the envelope has no result member
UnmarshalResponse(body) ==
    IF body.hasResult THEN ResponseOf(Unmarshal(body.result)) ELSE EmptyResponse

(* ---- state ------------------------------------------------------------ *)

VARIABLES
    cfg,          \* the Config given to NewClient
    client,       \* the Client NewClient returned
    newErr,       \* the error NewClient returned
    ctxErr,       \* ctx.Err(): "none", "Canceled" or "DeadlineExceeded"
    pc,           \* where the Execute call stands
    stream,       \* payload.Stream of the call
    attempt,      \* the loop variable of doRequest
    requests,     \* the header sets of the requests built so far
    resp,         \* status and content type of the response at hand
    bodyOpen,     \* response bodies opened and not yet closed
    result,       \* the accumulation of readStream
    events,       \* the events decoded from the stream at hand, in order
    attemptResp,  \* the response executeRequest returned
    attemptErr,   \* the error executeRequest returned
    outcomes,     \* "ok" or "fail" for every finished attempt
    logged,       \* the attempt numbers given to logger.Warn
    retResp,      \* the response Execute returned
    retErr,       \* the error Execute returned
    streamCap,    \* most events the server puts in one stream in this run
    now,          \* the clock time.Now reads
    sent,         \* body and signature context of the requests built so far
    dlines,       \* the lines the decoder's scanner returned so far
    dsrc,         \* the scanner's source: "open", "ended" or "failed"
    dname,        \* name of the running next() call
    dbuilder,     \* builder of the running next() call
    dout,         \* the events the next() calls returned so far
    dstate,       \* "next", or how the last next() call ended: "eof", "err",
                  \* or "abort" after an `error` event
    rresult,      \* readStream's result, fed by the decoder's events
    rret,         \* what readStream returned
    calls,        \* the locals of each of the concurrent Execute calls
    kpc,          \* where the Kubernetes client's Run is
    kctx,         \* the context given to Run: "live" or "canceled"
    kstatus,      \* the Job's status on the server
    kcreated,     \* created.Name, "" before the Job is created
    kseen,        \* the status the last poll read
    ktimer,       \* time.After(c.pollInterval) has fired
    kpolls,       \* the polls started, and those started after cancellation
    kdeletes,     \* the Delete calls issued
    kwait,        \* what waitForCompletion returned
    kret          \* what Run returned

kubeVars == <<kpc, kctx, kstatus, kcreated, kseen, ktimer, kpolls, kdeletes, kwait, kret>>

decVars == <<dlines, dsrc, dname, dbuilder, dout, dstate, rresult, rret>>

vars == <<kubeVars, calls, decVars, now, sent, streamCap, cfg, client, newErr, ctxErr, pc, stream, attempt, requests, resp,
          bodyOpen, result, events, attemptResp, attemptErr, outcomes, logged,
          retResp, retErr>>

\* the state of the one sequential Execute call
execVars == <<now, sent, streamCap, cfg, client, newErr, ctxErr, pc, stream, attempt,
              requests, resp, bodyOpen, result, events, attemptResp, attemptErr,
              outcomes, logged, retResp, retErr>>

NoResp == [StatusCode |-> 0, ContentType |-> ""]

\* the goroutines that call Execute on the one client
CallIds == {1, 2}

\* the locals of an Execute call that has not started: doRequest's attempt,
\* executeRequest's return values, readStream's result, and what the
\* server answered to its attempts so far
IdleCall == [pc |-> "idle", attempt |-> 0, attemptResp |-> EmptyResponse,
             attemptErr |-> NilErr, result |-> ZeroPayload, events |-> <<>>,
             got |-> <<>>, retResp |-> EmptyResponse, retErr |-> NilErr]

\* readStream has not returned
NoReturn == [returned |-> FALSE, payload |-> ZeroPayload, err |-> NilErr]

\* job.Status of a Job that has neither succeeded nor failed
NoStatus == [Succeeded |-> 0, Failed |-> 0]

\* nothing returned yet
NotReturned == [returned |-> FALSE, err |-> NilErr]

InitCall ==
    /\ client = NewClient(cfg).client
    /\ newErr = NewClient(cfg).err
    /\ ctxErr = "none"
    /\ pc = "idle"
    /\ stream = FALSE
    /\ attempt = 0
    /\ requests = <<>>
    /\ sent = <<>>
    /\ now = 0
    /\ dlines = <<>>
    /\ dsrc = "open"
    /\ dname = ""
    /\ dbuilder = ""
    /\ dout = <<>>
    /\ dstate = "next"
    /\ rresult = ZeroPayload
    /\ rret = NoReturn
    /\ calls = [k \in CallIds |-> IdleCall]
    /\ kpc = "idle"
    /\ kctx = "live"
    /\ kstatus = NoStatus
    /\ kcreated = ""
    /\ kseen = NoStatus
    /\ ktimer = FALSE
    /\ kpolls = [started |-> 0, afterCancel |-> 0]
    /\ kdeletes = <<>>
    /\ kwait = NotReturned
    /\ kret = NotReturned
    /\ resp = NoResp
    /\ bodyOpen = 0
    /\ result = ZeroPayload
    /\ events = <<>>
    /\ attemptResp = EmptyResponse
    /\ attemptErr = NilErr
    /\ outcomes = <<>>
    /\ logged = <<>>
    /\ retResp = EmptyResponse
    /\ retErr = NilErr

\* any configuration, short streams
Init ==
    /\ cfg \in Configs
    /\ streamCap = MaxRetryEvents
    /\ InitCall

\* one configuration, longer streams
InitStream ==
    /\ cfg = [Endpoint |-> "http://rt", AuthToken |-> "token", MaxRetries |-> 1,
              Logger |-> TRUE]
    /\ streamCap = MaxEvents
    /\ InitCall

(* ---- Execute ----------------------------------------------------------- *)

\* Execute, json.Marshal fails: no request is made
ExecuteMarshalFail ==
    /\ pc = "idle"
    /\ client.valid
    /\ stream' \in BOOLEAN
    /\ retResp' = EmptyResponse
    /\ retErr' = Errorf("ErrRemoteExecutionFailed", "marshal request",
                        [IOError EXCEPT !.detail = "unsupported type"])
    /\ pc' = "done"
    /\ UNCHANGED <<kubeVars, calls, decVars, now, streamCap, cfg, client, newErr, ctxErr, attempt, requests, sent, resp, bodyOpen,
                   result, events, attemptResp, attemptErr, outcomes, logged>>

\* Execute marshals the payload and enters doRequest
ExecuteBegin ==
    /\ pc = "idle"
    /\ client.valid
    /\ stream' \in BOOLEAN
    /\ attempt' = 0
    /\ pc' = "loop"
    /\ UNCHANGED <<kubeVars, calls, decVars, now, streamCap, cfg, client, newErr, ctxErr, requests, sent, resp, bodyOpen, result,
                   events, attemptResp, attemptErr, outcomes, logged, retResp, retErr>>

\* the caller's context is canceled or its deadline passes
CancelContext ==
    /\ pc # "done"
    /\ client.valid
    /\ ctxErr = "none"
    /\ ctxErr' \in {"Canceled", "DeadlineExceeded"}
    /\ UNCHANGED <<kubeVars, calls, decVars, now, streamCap, cfg, client, newErr, pc, stream, attempt, requests, sent, resp,
                   bodyOpen, result, events, attemptResp, attemptErr, outcomes,
                   logged, retResp, retErr>>

(* ---- doRequest -------------------------------------------------------- *)

\* variant: the budget is spent one attempt early
LastAttemptOffByOne(a, maxRetries) == a + 1 >= maxRetries

\* variant: the loop body never sees its last pass
LastAttemptNever(a, maxRetries) == a > maxRetries

\* `attempt == c.maxRetries`
LastAttempt(a, maxRetries) == a = maxRetries

\* what one pass of the loop does with the attempt's error
LoopDecision(err, a, maxRetries) ==
    IF err = NilErr THEN "return"
    ELSE IF ~isRetryable(err) \/ LastAttempt(a, maxRetries) THEN "fail"
    ELSE "retry"

\* the loop head: `attempt <= c.maxRetries` enters executeRequest, which
\* builds the request up to httpClient.Do with fresh locals; otherwise the
\* statement after the loop returns
LoopHead ==
    /\ pc = "loop"
    /\ IF attempt <= client.maxRetries
       THEN /\ requests' = Append(requests, RequestHeaders(client.authToken, stream))
            /\ sent' = Append(sent, signRequest(Marshal(stream), client.authToken,
                                                now, sent))
            /\ attemptResp' = EmptyResponse
            /\ attemptErr' = NilErr
            /\ resp' = NoResp
            /\ result' = ZeroPayload
            /\ events' = <<>>
            /\ pc' = "sending"
            /\ UNCHANGED <<retResp, retErr>>
       ELSE /\ retResp' = EmptyResponse
            /\ retErr' = Errorf("ErrRemoteExecutionFailed", "retries exhausted", NilErr)
            /\ pc' = "done"
            /\ UNCHANGED <<requests, sent, attemptResp, attemptErr, resp, result, events>>
    /\ UNCHANGED <<kubeVars, calls, decVars, now, streamCap, cfg, client, newErr, ctxErr, stream, attempt, bodyOpen,
                   outcomes, logged>>

\* variant: the notification carries the index of the failed attempt
WarnAttemptIndex(log, logger, a) == IF logger THEN Append(log, a) ELSE log

\* c.logger.Warn("remote execution retry", "attempt", attempt+1, ...) when
\* a logger is configured
Warn(log, logger, a) == IF logger THEN Append(log, a + 1) ELSE log

\* the rest of the loop body, after executeRequest returned
LoopStep ==
    /\ pc = "returned"
    /\ LET d == LoopDecision(attemptErr, attempt, client.maxRetries) IN
       CASE d = "return" ->
              /\ retResp' = attemptResp
              /\ retErr' = NilErr
              /\ pc' = "done"
              /\ UNCHANGED <<attempt, logged>>
         [] d = "fail" ->
              /\ retResp' = EmptyResponse
              /\ retErr' = attemptErr
              /\ pc' = "done"
              /\ UNCHANGED <<attempt, logged>>
         [] OTHER ->
              /\ logged' = Warn(logged, client.logger, attempt)
              /\ attempt' = attempt + 1
              /\ pc' = "loop"
              /\ UNCHANGED <<retResp, retErr>>
    /\ UNCHANGED <<kubeVars, calls, decVars, now, streamCap, cfg, client, newErr, ctxErr, stream, requests, sent, resp, bodyOpen,
                   result, events, attemptResp, attemptErr, outcomes>>

(* ---- executeRequest ---------------------------------------------------- *)

\* variant: the body is not closed
deferCloseMissing(open) == open

\* `defer resp.Body.Close()` runs when executeRequest returns
deferClose(open) == open - 1

\* the errors a read of the response body can fail with
ReadErrors == {IOError} \cup (IF ctxErr # "none" THEN {CtxError(ctxErr)} ELSE {})

\* executeRequest returns (r, e) to the loop
AttemptReturns(r, e) ==
    /\ attemptResp' = r
    /\ attemptErr' = e
    /\ outcomes' = Append(outcomes, IF e = NilErr THEN "ok" ELSE "fail")
    /\ pc' = "returned"

\* httpClient.Do fails: the context is done, or the transport failed
DoFail ==
    /\ pc = "sending"
    /\ LET e == IF ctxErr # "none" THEN CtxError(ctxErr) ELSE IOError IN
       AttemptReturns(EmptyResponse, Errorf("ErrConnectionFailed", "send", e))
    /\ UNCHANGED <<kubeVars, calls, decVars, now, streamCap, cfg, client, newErr, ctxErr, stream, attempt, requests, sent, resp,
                   bodyOpen, result, events, logged, retResp, retErr>>

\* httpClient.Do returns a response: its body is open
DoResponse ==
    /\ pc = "sending"
    /\ ctxErr = "none"
    /\ resp' \in [StatusCode : Statuses, ContentType : ContentTypes]
    /\ bodyOpen' = bodyOpen + 1
    /\ pc' = "classify"
    /\ UNCHANGED <<kubeVars, calls, decVars, now, streamCap, cfg, client, newErr, ctxErr, stream, attempt, requests, sent, result,
                   events, attemptResp, attemptErr, outcomes, logged, retResp, retErr>>

\* variant: an event-stream answer is decoded as a stream whether or not
\* streaming was requested
ClassifyByContentType(r, wantStream) ==
    IF r.StatusCode >= 500 THEN "server error"
    ELSE IF r.StatusCode < 200 \/ r.StatusCode >= 300 THEN "status"
    ELSE IF IsEventStream(r.ContentType) THEN "stream"
    ELSE "body"

\* which way executeRequest takes a response
Classify(r, wantStream) ==
    IF r.StatusCode >= 500 THEN "server error"
    ELSE IF r.StatusCode < 200 \/ r.StatusCode >= 300 THEN "status"
    ELSE IF wantStream /\ IsEventStream(r.ContentType) THEN "stream"
    ELSE "body"

\* the status checks, and the choice between readStream and io.ReadAll
ClassifyResponse ==
    /\ pc = "classify"
    /\ LET c == Classify(resp, stream) IN
       CASE c \in {"server error", "status"} ->
              /\ AttemptReturns(EmptyResponse,
                                ErrorfStatus("ErrRemoteExecutionFailed", c, resp.StatusCode))
              /\ bodyOpen' = deferClose(bodyOpen)
              /\ UNCHANGED <<result, events>>
         [] c = "stream" ->
              /\ result' = ZeroPayload
              /\ events' = <<>>
              /\ pc' = "stream"
              /\ UNCHANGED <<bodyOpen, attemptResp, attemptErr, outcomes>>
         [] OTHER ->
              /\ pc' = "body"
              /\ UNCHANGED <<bodyOpen, result, events, attemptResp, attemptErr, outcomes>>
    /\ UNCHANGED <<kubeVars, calls, decVars, now, streamCap, cfg, client, newErr, ctxErr, stream, attempt, requests, sent, resp,
                   logged, retResp, retErr>>

\* io.ReadAll(resp.Body) fails
ReadBodyFail ==
    /\ pc = "body"
    /\ \E e \in ReadErrors :
          AttemptReturns(EmptyResponse,
                         Errorf("ErrRemoteExecutionFailed", "read response", e))
    /\ bodyOpen' = deferClose(bodyOpen)
    /\ UNCHANGED <<kubeVars, calls, decVars, now, streamCap, cfg, client, newErr, ctxErr, stream, attempt, requests, sent, resp,
                   result, events, logged, retResp, retErr>>

\* io.ReadAll succeeds and json.Unmarshal decodes the envelope, or fails
ReadBody ==
    /\ pc = "body"
    /\ \E body \in Bodies :
          IF body.valid
          THEN AttemptReturns(UnmarshalResponse(body), NilErr)
          ELSE AttemptReturns(EmptyResponse,
                              Errorf("ErrRemoteExecutionFailed", "decode response",
                                     [IOError EXCEPT !.detail = "invalid character"]))
    /\ bodyOpen' = deferClose(bodyOpen)
    /\ UNCHANGED <<kubeVars, calls, decVars, now, streamCap, cfg, client, newErr, ctxErr, stream, attempt, requests, sent, resp,
                   result, events, logged, retResp, retErr>>

(* ---- readStream, as executeRequest calls it --------------------------- *)

\* what readStream returns when it stops on an error
StreamAbort(acc) == ZeroPayload

\* variant: readStream's error is not looked at before wrapping
StreamResponseKeepsPartial(payloadResult, err) == ResponseOf(payloadResult)

\* the response executeRequest makes of readStream's return
StreamResponse(payloadResult, err) ==
    IF err # NilErr THEN EmptyResponse ELSE ResponseOf(payloadResult)

\* variant: an `error` event is skipped like an unknown event
AbortsStreamNever(ev) == FALSE

\* case "error" of the switch
AbortsStream(ev) == ev.Name = "error"

\* variant: a stream that ends without a `result` event is an error
StreamEndNeedsResult(acc, evs) ==
    IF \E i \in 1 .. Len(evs) : evs[i].Name = "result"
    THEN [payload |-> acc, err |-> NilErr]
    ELSE [payload |-> ZeroPayload,
          err |-> ErrorfText("ErrRemoteExecutionFailed", "no result")]

\* what readStream returns when decoder.next reports io.EOF after evs
StreamEnd(acc, evs) == [payload |-> acc, err |-> NilErr]

\* decoder.next returns an event: the switch merges it, or an `error` event
\* ends the attempt
StreamEvent ==
    /\ pc = "stream"
    /\ Len(events) < streamCap
    /\ \E ev \in Events :
          /\ events' = Append(events, ev)
          /\ IF AbortsStream(ev)
             THEN LET e == ErrorfText("ErrRemoteExecutionFailed", ev.Data) IN
                  /\ AttemptReturns(StreamResponse(StreamAbort(result), e), e)
                  /\ bodyOpen' = deferClose(bodyOpen)
                  /\ UNCHANGED result
             ELSE /\ result' = MergeEvent(result, ev)
                  /\ UNCHANGED <<pc, bodyOpen, attemptResp, attemptErr, outcomes>>
    /\ UNCHANGED <<kubeVars, calls, decVars, now, streamCap, cfg, client, newErr, ctxErr, stream, attempt, requests, sent, resp,
                   logged, retResp, retErr>>

\* decoder.next returns io.EOF: readStream returns the accumulation
StreamEOF ==
    /\ pc = "stream"
    /\ LET r == StreamEnd(result, events) IN
       AttemptReturns(StreamResponse(r.payload, r.err), r.err)
    /\ bodyOpen' = deferClose(bodyOpen)
    /\ UNCHANGED <<kubeVars, calls, decVars, now, streamCap, cfg, client, newErr, ctxErr, stream, attempt, requests, sent, resp,
                   result, events, logged, retResp, retErr>>

\* decoder.next returns another error: the read of the body failed
StreamFail ==
    /\ pc = "stream"
    /\ \E inner \in ReadErrors :
          LET e == Errorf("ErrRemoteExecutionFailed", "stream decode", inner) IN
          AttemptReturns(StreamResponse(StreamAbort(result), e), e)
    /\ bodyOpen' = deferClose(bodyOpen)
    /\ UNCHANGED <<kubeVars, calls, decVars, now, streamCap, cfg, client, newErr, ctxErr, stream, attempt, requests, sent, resp,
                   result, events, logged, retResp, retErr>>

(* ---- the specification ------------------------------------------------ *)

Next ==
    \/ ExecuteMarshalFail
    \/ ExecuteBegin
    \/ CancelContext
    \/ LoopHead
    \/ LoopStep
    \/ DoFail
    \/ DoResponse
    \/ ClassifyResponse
    \/ ReadBodyFail
    \/ ReadBody
    \/ StreamEvent
    \/ StreamEOF
    \/ StreamFail

Spec == Init /\ [][Next]_vars

\* every configuration with an endpoint, short streams, and each step of
\* the call taken in the end: an attempt terminates
InitLive ==
    /\ cfg \in {c \in Configs : c.Endpoint # "" /\ c.AuthToken = "" /\ c.Logger}
    /\ streamCap = 1
    /\ InitCall

SpecLive == InitLive /\ [][Next]_vars /\ WF_vars(Next)

\* time passes
Tick ==
    /\ now < MaxClock
    /\ now' = now + 1
    /\ UNCHANGED <<kubeVars, calls, decVars, sent, streamCap, cfg, client, newErr, ctxErr, pc, stream, attempt,
                   requests, resp, bodyOpen, result, events, attemptResp, attemptErr,
                   outcomes, logged, retResp, retErr>>

\* one signing configuration, no stream events, a running clock
InitClock ==
    /\ cfg = [Endpoint |-> "http://rt", AuthToken |-> "token", MaxRetries |-> 2,
              Logger |-> FALSE]
    /\ streamCap = 1
    /\ InitCall

NextClock == Next \/ Tick

SpecClock == InitClock /\ [][NextClock]_vars

\* ---- concurrent Execute calls on one client ----

\* variant: the locals are kept in one place for all calls
LocalsShared(cs, k) == cs[1]

\* the locals call k reads: they live in the frames of its own doRequest,
\* executeRequest and readStream
Locals(cs, k) == cs[k]

\* the events the streams of the concurrent calls deliver
CallEvents == {ev \in Events : ev.Data \in {"a", "boom"} \/ ev.json.valid}

\* Execute starts on goroutine k
CallBegin(k) ==
    /\ client.valid
    /\ calls[k].pc = "idle"
    /\ calls' = [calls EXCEPT ![k].pc = "loop"]
    /\ UNCHANGED <<decVars, execVars, kubeVars>>

\* one executeRequest of call k up to the answer: httpClient.Do fails, or
\* the server answers with an event stream that readStream starts to decode
CallSend(k) ==
    /\ calls[k].pc = "loop"
    /\ Locals(calls, k).attempt <= client.maxRetries
    /\ \/ LET e == Errorf("ErrConnectionFailed", "send", IOError) IN
          calls' = [calls EXCEPT ![k].pc = "returned",
                                 ![k].attemptResp = EmptyResponse,
                                 ![k].attemptErr = e,
                                 ![k].got = Append(@, [err |-> e, evs |-> <<>>])]
       \/ calls' = [calls EXCEPT ![k].pc = "stream",
                                 ![k].result = ZeroPayload,
                                 ![k].events = <<>>]
    /\ UNCHANGED <<decVars, execVars, kubeVars>>

\* readStream of call k gets an event
CallEvent(k) ==
    /\ calls[k].pc = "stream"
    /\ Len(calls[k].events) < MaxCallEvents
    /\ \E ev \in CallEvents :
          LET evs == Append(Locals(calls, k).events, ev) IN
          IF AbortsStream(ev)
          THEN LET e == ErrorfText("ErrRemoteExecutionFailed", ev.Data) IN
               calls' = [calls EXCEPT
                           ![k].pc = "returned",
                           ![k].events = evs,
                           ![k].attemptResp =
                               StreamResponse(StreamAbort(Locals(calls, k).result), e),
                           ![k].attemptErr = e,
                           ![k].got = Append(@, [err |-> NilErr, evs |-> evs])]
          ELSE calls' = [calls EXCEPT
                           ![k].events = evs,
                           ![k].result = MergeEvent(Locals(calls, k).result, ev)]
    /\ UNCHANGED <<decVars, execVars, kubeVars>>

\* readStream of call k gets io.EOF
CallEOF(k) ==
    /\ calls[k].pc = "stream"
    /\ LET r == StreamEnd(Locals(calls, k).result, Locals(calls, k).events) IN
       calls' = [calls EXCEPT
                   ![k].pc = "returned",
                   ![k].attemptResp = StreamResponse(r.payload, r.err),
                   ![k].attemptErr = r.err,
                   ![k].got = Append(@, [err |-> NilErr,
                                         evs |-> Locals(calls, k).events])]
    /\ UNCHANGED <<decVars, execVars, kubeVars>>

\* the rest of the loop body of call k's doRequest
CallStep(k) ==
    /\ calls[k].pc = "returned"
    /\ LET my == Locals(calls, k)
           d == LoopDecision(my.attemptErr, my.attempt, client.maxRetries) IN
       CASE d = "return" ->
              calls' = [calls EXCEPT ![k].pc = "done",
                                     ![k].retResp = my.attemptResp,
                                     ![k].retErr = NilErr]
         [] d = "fail" ->
              calls' = [calls EXCEPT ![k].pc = "done",
                                     ![k].retResp = EmptyResponse,
                                     ![k].retErr = my.attemptErr]
         [] OTHER ->
              calls' = [calls EXCEPT ![k].pc = "loop",
                                     ![k].attempt = my.attempt + 1]
    /\ UNCHANGED <<decVars, execVars, kubeVars>>

NextConcurrent ==
    \E k \in CallIds :
        CallBegin(k) \/ CallSend(k) \/ CallEvent(k) \/ CallEOF(k) \/ CallStep(k)

SpecConcurrent == InitStream /\ [][NextConcurrent]_vars

\* ---- kubernetes Client.Run and waitForCompletion ----

Returned(e) == [returned |-> TRUE, err |-> e]

\* the names Run gives its Jobs: the prefix and a random id
JobNames == {"toolrun-1a2b3c4d", "toolrun-5e6f7a8b"}

\* the statuses a Job can report
JobStatuses == [Succeeded : {0, 1}, Failed : {0, 1}]

\* variant: the Delete is made with the caller's context
deferDeleteCallerCtx(deletes, name, ctx) ==
    IF name = "" THEN deletes ELSE Append(deletes, [job |-> name, ctx |-> ctx])

\* the deferred Delete of Run: registered once the Job is created, it runs
\* when Run returns, with context.Background()
deferDelete(deletes, name, ctx) ==
    IF name = "" THEN deletes ELSE Append(deletes, [job |-> name, ctx |-> "background"])

\* Run returns e
RunReturns(e) ==
    /\ kret' = Returned(e)
    /\ kdeletes' = deferDelete(kdeletes, kcreated, kctx)
    /\ kpc' = "done"

\* Run is called and fails before the Job is created: no clientset, an
\* invalid spec, no random id
RunReject ==
    /\ kpc = "idle"
    /\ \E sentinel \in {"ErrClientNotConfigured", "validate", "random id"} :
          RunReturns([IOError EXCEPT !.is = {sentinel}, !.kind = "before create"])
    /\ UNCHANGED <<kctx, kstatus, kcreated, kseen, ktimer, kpolls, kwait,
                   decVars, execVars, calls>>

\* Run builds the Job and comes to Create
RunBegin ==
    /\ kpc = "idle"
    /\ kpc' = "create"
    /\ UNCHANGED <<kctx, kstatus, kcreated, kseen, ktimer, kpolls, kdeletes, kwait,
                   kret, decVars, execVars, calls>>

\* Jobs.Create fails
CreateFail ==
    /\ kpc = "create"
    /\ RunReturns(Errorf("ErrPodCreationFailed", "create",
                         IF kctx = "canceled" THEN CtxError("Canceled") ELSE IOError))
    /\ UNCHANGED <<kctx, kstatus, kcreated, kseen, ktimer, kpolls, kwait,
                   decVars, execVars, calls>>

\* Jobs.Create returns the Job; the Delete is deferred and
\* waitForCompletion starts
CreateJob ==
    /\ kpc = "create"
    /\ kctx = "live"
    /\ kcreated' \in JobNames
    /\ kpc' = "get"
    /\ UNCHANGED <<kctx, kstatus, kseen, ktimer, kpolls, kdeletes, kwait, kret,
                   decVars, execVars, calls>>

\* the caller cancels the context
CancelRun ==
    /\ kctx = "live"
    /\ kpc \notin {"idle", "done"}
    /\ kctx' = "canceled"
    /\ UNCHANGED <<kpc, kstatus, kcreated, kseen, ktimer, kpolls, kdeletes, kwait,
                   kret, decVars, execVars, calls>>

\* the Job's pod succeeds or fails on the cluster
JobProgress ==
    /\ kcreated # ""
    /\ kpc # "done"
    /\ \E st \in JobStatuses :
          /\ st.Succeeded >= kstatus.Succeeded
          /\ st.Failed >= kstatus.Failed
          /\ st # kstatus
          /\ kstatus' = st
    /\ UNCHANGED <<kpc, kctx, kcreated, kseen, ktimer, kpolls, kdeletes, kwait,
                   kret, decVars, execVars, calls>>

\* variant: Failed is looked at before Succeeded
PollOutcomeFailedFirst(st) ==
    IF st.Failed > 0 THEN "failed"
    ELSE IF st.Succeeded > 0 THEN "succeeded"
    ELSE "pending"

\* the checks of one poll on the status it read
PollOutcome(st) ==
    IF st.Succeeded > 0 THEN "succeeded"
    ELSE IF st.Failed > 0 THEN "failed"
    ELSE "pending"

\* waitForCompletion returns e to Run, which returns it unless it is nil
WaitReturns(e) ==
    /\ kwait' = Returned(e)
    /\ IF e = NilErr
       THEN /\ kpc' = "find"
            /\ UNCHANGED <<kret, kdeletes>>
       ELSE RunReturns(e)

PollStarted ==
    [started |-> kpolls.started + 1,
     afterCancel |-> kpolls.afterCancel + (IF kctx = "canceled" THEN 1 ELSE 0)]

\* one poll: Jobs.Get fails
PollFail ==
    /\ kpc = "get"
    /\ kpolls' = PollStarted
    /\ WaitReturns(Errorf("ErrPodExecutionFailed", "get",
                          IF kctx = "canceled" THEN CtxError("Canceled") ELSE IOError))
    /\ UNCHANGED <<kctx, kstatus, kcreated, kseen, ktimer, decVars, execVars, calls>>

\* one poll: Jobs.Get returns the Job and its status is looked at
Poll ==
    /\ kpc = "get"
    /\ kpolls' = PollStarted
    /\ kseen' = kstatus
    /\ CASE PollOutcome(kstatus) = "succeeded" -> WaitReturns(NilErr)
         [] PollOutcome(kstatus) = "failed" ->
              WaitReturns(ErrorfText("ErrPodExecutionFailed", "job failed"))
         [] OTHER ->
              /\ kpc' = "select"
              /\ UNCHANGED <<kwait, kret, kdeletes>>
    /\ ktimer' = FALSE
    /\ UNCHANGED <<kctx, kstatus, kcreated, decVars, execVars, calls>>

\* the poll interval, which is positive, passes while the select waits; a
\* select entered with the context canceled does not wait
TimerFires ==
    /\ kpc = "select"
    /\ ~ktimer
    /\ kctx = "live"
    /\ kpolls.started < MaxPolls
    /\ ktimer' = TRUE
    /\ UNCHANGED <<kpc, kctx, kstatus, kcreated, kseen, kpolls, kdeletes, kwait,
                   kret, decVars, execVars, calls>>

\* the select takes case <-ctx.Done()
SelectDone ==
    /\ kpc = "select"
    /\ kctx = "canceled"
    /\ WaitReturns(CtxError("Canceled"))
    /\ UNCHANGED <<kctx, kstatus, kcreated, kseen, ktimer, kpolls, decVars, execVars,
                   calls>>

\* the select takes case <-time.After(c.pollInterval)
SelectTimer ==
    /\ kpc = "select"
    /\ ktimer
    /\ kpc' = "get"
    /\ UNCHANGED <<kctx, kstatus, kcreated, kseen, ktimer, kpolls, kdeletes, kwait,
                   kret, decVars, execVars, calls>>

\* findPodForJob: the list fails, is empty, or has the pod
FindPod ==
    /\ kpc = "find"
    /\ \/ \E what \in {"list pods", "no pods found"} :
             RunReturns(Errorf("ErrPodExecutionFailed", what, IOError))
       \/ /\ kpc' = "logs"
          /\ UNCHANGED <<kret, kdeletes>>
    /\ UNCHANGED <<kctx, kstatus, kcreated, kseen, ktimer, kpolls, kwait, decVars,
                   execVars, calls>>

\* readLogs fails, or Run returns the result
ReadLogs ==
    /\ kpc = "logs"
    /\ \/ \E what \in {"logs", "logs read"} :
             RunReturns(Errorf("ErrPodExecutionFailed", what, IOError))
       \/ RunReturns(NilErr)
    /\ UNCHANGED <<kctx, kstatus, kcreated, kseen, ktimer, kpolls, kwait, decVars,
                   execVars, calls>>

NextKube ==
    \/ RunReject \/ RunBegin \/ CreateFail \/ CreateJob \/ CancelRun \/ JobProgress
    \/ PollFail \/ Poll \/ TimerFires \/ SelectDone \/ SelectTimer
    \/ FindPod \/ ReadLogs

\* every step of Run that can be taken is taken in the end
SpecKube == InitClock /\ [][NextKube]_vars /\ WF_vars(NextKube)

\* ---- sseDecoder ----
\* A line is the sequence of its pieces: a field prefix, spaces, text.

Blank == <<>>

Lines == { Blank,
           <<"event:", " ", "stdout">>,
           <<"event:", "result">>,
           <<"event:", "error">>,
           <<"event:">>,
           <<"data:", " ", "a">>,
           <<"data:", "b", " ">>,
           <<"data:">>,
           <<":", "keepalive">> }

\* strings.HasPrefix
HasPrefix(line, prefix) == line # <<>> /\ Head(line) = prefix

\* strings.TrimPrefix, for a line that has the prefix
TrimPrefix(line) == Tail(line)

RECURSIVE TrimLeft(_)
TrimLeft(s) == IF s # <<>> /\ Head(s) = " " THEN TrimLeft(Tail(s)) ELSE s

RECURSIVE TrimRight(_)
TrimRight(s) ==
    IF s # <<>> /\ s[Len(s)] = " " THEN TrimRight(SubSeq(s, 1, Len(s) - 1)) ELSE s

RECURSIVE Text(_)
Text(s) == IF s = <<>> THEN "" ELSE Head(s) \o Text(Tail(s))

\* strings.TrimSpace, giving the text that is left
TrimSpace(s) == Text(TrimRight(TrimLeft(s)))

sseEvent(name, data) == [Name |-> name, Data |-> data]

\* the test next() makes on a blank line and at the end of the source
NothingPending(name, builder) == builder = "" /\ name = ""

\* one turn of the loop of next() on a scanned line: the locals after it
\* and whether next() returns the event they hold
DecodeLine(name, builder, line) ==
    IF line = Blank
    THEN [name |-> name, builder |-> builder,
          returns |-> ~NothingPending(name, builder)]
    ELSE IF HasPrefix(line, "event:")
    THEN [name |-> TrimSpace(TrimPrefix(line)), builder |-> builder,
          returns |-> FALSE]
    ELSE IF HasPrefix(line, "data:")
    THEN [name |-> name,
          builder |-> (IF builder # "" THEN builder \o "\n" ELSE builder)
                         \o TrimSpace(TrimPrefix(line)),
          returns |-> FALSE]
    ELSE [name |-> name, builder |-> builder, returns |-> FALSE]

\* json.Unmarshal of an event's data: none of the texts the lines above
\* carry is a JSON document
UnmarshalText(data) == NotJSON

\* the errors scanner.Err() reports: the source's error, bufio.ErrTooLong
TooLong == [is |-> {}, kind |-> "io", detail |-> "token too long", status |-> 0]

ScanErrors == {IOError, TooLong}

\* variant: the pending event is looked at before scanner.Err()
ScanStopsPendingFirst(failed, name, builder) ==
    IF ~NothingPending(name, builder) THEN "event"
    ELSE IF failed THEN "err"
    ELSE "eof"

\* what next() returns when Scan returns false
ScanStops(failed, name, builder) ==
    IF failed THEN "err"
    ELSE IF ~NothingPending(name, builder) THEN "event"
    ELSE "eof"

\* next() returned the event: readStream's switch merges it, or returns on
\* an `error` event; the following next() call starts with fresh locals
ReturnEvent(name, data) ==
    LET ev == Event(name, data, UnmarshalText(data)) IN
    /\ dout' = Append(dout, sseEvent(name, data))
    /\ dname' = ""
    /\ dbuilder' = ""
    /\ IF AbortsStream(ev)
       THEN /\ rret' = [returned |-> TRUE, payload |-> StreamAbort(rresult),
                        err |-> ErrorfText("ErrRemoteExecutionFailed", data)]
            /\ dstate' = "abort"
            /\ rresult' = rresult
       ELSE /\ rresult' = MergeEvent(rresult, ev)
            /\ UNCHANGED <<rret, dstate>>

\* Scan returns a line; next() either goes on or returns an event
DecLine ==
    /\ dstate = "next"
    /\ dsrc = "open"
    /\ Len(dlines) < MaxLines
    /\ \E line \in Lines :
          LET r == DecodeLine(dname, dbuilder, line) IN
          /\ dlines' = Append(dlines, line)
          /\ IF r.returns
             THEN ReturnEvent(r.name, r.builder)
             ELSE /\ dname' = r.name
                  /\ dbuilder' = r.builder
                  /\ UNCHANGED <<dout, dstate, rresult, rret>>
    /\ UNCHANGED <<dsrc, execVars, calls, kubeVars>>

\* Scan returns false: next() returns the pending event, io.EOF or the
\* scanner's error, and readStream goes on, breaks or returns the wrapped
\* error
DecStop(failed, inner) ==
    LET r == ScanStops(failed, dname, dbuilder) IN
    /\ CASE r = "event" -> ReturnEvent(dname, dbuilder)
         [] r = "eof" ->
              /\ dstate' = "eof"
              /\ rret' = [returned |-> TRUE,
                          payload |-> StreamEnd(rresult, dout).payload,
                          err |-> StreamEnd(rresult, dout).err]
              /\ UNCHANGED <<dout, dname, dbuilder, rresult>>
         [] OTHER ->
              /\ dstate' = "err"
              /\ rret' = [returned |-> TRUE, payload |-> StreamAbort(rresult),
                          err |-> Errorf("ErrRemoteExecutionFailed",
                                         "stream decode", inner)]
              /\ dname' = ""
              /\ dbuilder' = ""
              /\ UNCHANGED <<dout, rresult>>
    /\ UNCHANGED <<dlines, execVars, calls, kubeVars>>

\* the source ends: Scan returns false and Err returns nil
DecEnd ==
    /\ dstate = "next"
    /\ dsrc \in {"open", "ended"}
    /\ dsrc' = "ended"
    /\ DecStop(FALSE, NilErr)

\* the source fails or a line is too long: Scan returns false and Err
\* returns the error
DecFail ==
    /\ dstate = "next"
    /\ dsrc \in {"open", "failed"}
    /\ dsrc' = "failed"
    /\ \E inner \in ScanErrors : DecStop(TRUE, inner)

NextDecoder == DecLine \/ DecEnd \/ DecFail

SpecDecoder == InitClock /\ [][NextDecoder]_vars

SpecStream == InitStream /\ [][Next]_vars

(* ---- properties -------------------------------------------------------- *)

Last(seq) == seq[Len(seq)]

\* the error's message reports a canceled or expired context
CtxCaused(err) == err.detail \in {"context canceled", "context deadline exceeded"}

\* the last attempt failed on every pass the loop permits
AllAttemptsFailed ==
    /\ pc = "done"
    /\ Len(outcomes) = client.maxRetries + 1
    /\ Last(outcomes) = "fail"

\* C1: k retryable failures followed by a success (k <= maxRetries) make
\* Execute return that success, with a nil error, after exactly k+1
\* attempts: every attempt before the last failed, nothing is attempted
\* after a success, and Execute gives up on a failure other than a
\* cancellation only when maxRetries+1 attempts were made.
C1_RetryThenSuccess ==
    /\ \A i \in 1 .. Len(outcomes) - 1 : outcomes[i] = "fail"
    /\ Len(outcomes) <= client.maxRetries + 1
    /\ Len(requests) \in {Len(outcomes), Len(outcomes) + 1}
    /\ (pc = "done" /\ outcomes # <<>> /\ Last(outcomes) = "ok") =>
          /\ retErr = NilErr
          /\ retResp = attemptResp
          /\ Len(requests) = Len(outcomes)
    /\ (pc = "done" /\ outcomes # <<>> /\ retErr # NilErr /\ ~CtxCaused(retErr)) =>
          Len(outcomes) = client.maxRetries + 1

\* C1 witness: maxRetries = 1, a failed attempt, then a 200 whose result
\* has stdout "ok", returned after two requests
C1_Witness ==
    /\ pc = "done"
    /\ client.maxRetries = 1
    /\ outcomes = <<"fail", "ok">>
    /\ Len(requests) = 2
    /\ resp.StatusCode = 200
    /\ retErr = NilErr
    /\ retResp.hasResult /\ retResp.Result.Stdout = "ok"

\* C2: once httpClient.Do failed because the context was canceled or
\* expired, no further attempt is made and Execute returns an error that
\* errors.Is recognises as the context's error.
C2_CancelDuringSend ==
    (attemptErr.kind = "send" /\ CtxCaused(attemptErr)) =>
        /\ pc \in {"returned", "done"}
        /\ pc = "done" => ErrorsIs(retErr, ctxErr)

\* C3 as stated: when all maxRetries+1 attempts failed, the returned error
\* carries the retries-exhausted marker and the last attempt's cause.
C3_Original ==
    AllAttemptsFailed =>
        /\ retErr.kind = "retries exhausted"
        /\ retErr.detail = attemptErr.detail

\* C3 amended: when all maxRetries+1 attempts failed, Execute returns the
\* last attempt's error itself, with no retries-exhausted marker, and an
\* empty response.
C3_LastErrorReturned ==
    AllAttemptsFailed =>
        /\ retErr = attemptErr
        /\ retErr # NilErr
        /\ retErr.kind # "retries exhausted"
        /\ retResp = EmptyResponse

\* C3 witness: maxRetries = 2, three failed attempts, the last a 503
C3_Witness ==
    /\ AllAttemptsFailed
    /\ client.maxRetries = 2
    /\ Len(requests) = 3
    /\ retErr.kind = "server error" /\ retErr.status = 503

\* C4 as stated: a client configured with MaxRetries <= 0 makes one
\* attempt per Execute call.
C4_Original ==
    (client.valid /\ cfg.MaxRetries <= 0) => Len(requests) <= 1

\* C4 amended: a client configured with MaxRetries <= 0 gets the default
\* bound of 3 retries: a failed first attempt is retried, and Execute makes
\* up to 4 attempts, all 4 when every attempt fails.
C4_DefaultBound ==
    (client.valid /\ cfg.MaxRetries <= 0) =>
        /\ client.maxRetries = DefaultMaxRetries
        /\ Len(requests) <= DefaultMaxRetries + 1
        /\ (pc = "done" /\ outcomes # <<>>) => Len(requests) >= 1
        /\ (pc = "done" /\ outcomes # <<>> /\ retErr # NilErr) =>
              Len(requests) = DefaultMaxRetries + 1

\* C4 witness: MaxRetries = 0 configured, four failed attempts made
C4_Witness ==
    /\ cfg.MaxRetries = 0
    /\ pc = "done"
    /\ Len(requests) = 4
    /\ outcomes = <<"fail", "fail", "fail", "fail">>

\* the stream at hand delivered a stdout event
SomeStdoutRead == \E i \in 1 .. Len(events) : events[i].Name = "stdout"

\* C5: Execute ends with a complete result and a nil error, or with an
\* error and an empty response.  Nothing is returned before the call ends;
\* a result comes from a successful last attempt and is all of it (for a
\* stream, the accumulation at end-of-stream); an attempt that fails hands
\* the loop an empty response, whatever readStream had accumulated.
C5_ResultOrError ==
    /\ pc # "done" => (retResp = EmptyResponse /\ retErr = NilErr)
    /\ attemptErr # NilErr => attemptResp = EmptyResponse
    /\ pc = "done" =>
          \/ /\ retErr = NilErr
             /\ outcomes # <<>> /\ Last(outcomes) = "ok"
             /\ retResp = attemptResp
             /\ Classify(resp, stream) = "stream" => retResp = ResponseOf(result)
          \/ /\ retErr # NilErr
             /\ retResp = EmptyResponse

\* C5 witness: an `error` event after stdout was accumulated, on the last
\* attempt: the caller gets the error and an empty response
C5_Witness ==
    /\ pc = "done"
    /\ retErr.kind = "event"
    /\ SomeStdoutRead
    /\ result.Stdout # ""
    /\ retResp = EmptyResponse

\* the kinds of failure an attempt can end with
FailureKinds ==
    {"send", "server error", "status", "read response", "decode response",
     "stream decode", "event"}

\* C6: an attempt failure that is not a cancellation or deadline expiry
\* (transport failure, status >= 500, other non-2xx status, body read or
\* JSON decode failure, stream decode failure, `error` event) is retryable:
\* the loop goes on to the next attempt while the attempt index is below
\* maxRetries, and gives up on such a failure only at index maxRetries.
C6_FailuresRetried ==
    /\ attemptErr # NilErr => attemptErr.kind \in FailureKinds
    /\ (attemptErr # NilErr /\ ~CtxCaused(attemptErr)) => isRetryable(attemptErr)
    /\ (pc = "done" /\ outcomes # <<>> /\ retErr # NilErr /\ ~CtxCaused(retErr)) =>
          /\ retErr.kind \in FailureKinds
          /\ attempt = client.maxRetries
          /\ Len(requests) = client.maxRetries + 1

\* C6 witness: a 404 on the first attempt, and the loop has moved on to
\* the second
C6_Witness ==
    /\ pc = "loop"
    /\ attempt = 1
    /\ attemptErr.kind = "status" /\ attemptErr.status = 404
    /\ outcomes = <<"fail">>

\* C7: once decoder.next failed because the context was canceled or
\* expired, the body is closed, no further attempt is made and Execute
\* returns an error that errors.Is recognises as the context's error.
C7_CancelMidStream ==
    (attemptErr.kind = "stream decode" /\ CtxCaused(attemptErr)) =>
        /\ bodyOpen = 0
        /\ pc \in {"returned", "done"}
        /\ pc = "done" => ErrorsIs(retErr, ctxErr)

\* C8: a response body is open only while executeRequest examines the
\* response: at most one is open, none while a request is built or sent,
\* none once the attempt has returned, none when Execute has returned.
C8_BodyClosed ==
    /\ bodyOpen \in {0, 1}
    /\ bodyOpen = 1 <=> pc \in {"classify", "body", "stream"}

\* C8 witness: the second attempt, a stream cut by a decode error after a
\* first response was received, has returned and no body is open
C8_Witness ==
    /\ pc \in {"returned", "done"}
    /\ Len(outcomes) = 2
    /\ attemptErr.kind = "stream decode"
    /\ events # <<>>
    /\ bodyOpen = 0

AuthHeaders == {"Authorization", "X-Toolruntime-Timestamp", "X-Toolruntime-Signature"}

\* C9: every request of the call carries the Authorization, timestamp and
\* signature headers when the configured token is not empty, and none of
\* the three when it is empty.
C9_AuthHeaders ==
    \A i \in 1 .. Len(requests) :
        IF cfg.AuthToken # "" THEN AuthHeaders \subseteq requests[i]
        ELSE requests[i] \cap AuthHeaders = {}

\* C9 witness: no token configured, a retry made, neither request signed
C9_Witness ==
    /\ cfg.AuthToken = ""
    /\ Len(requests) = 2
    /\ requests[1] \cap AuthHeaders = {}
    /\ requests[2] \cap AuthHeaders = {}

\* a step of readStream that merged a `result` event with valid JSON
MergedResult ==
    /\ pc = "stream" /\ pc' = "stream"
    /\ Len(events') = Len(events) + 1
    /\ Last(events').Name = "result"
    /\ Last(events').json.valid

\* C10: a `result` event that parses becomes the accumulation: value and
\* duration are the event's; stdout, stderr and tool calls are the event's
\* when not empty (not appended to the accumulated ones) and the
\* accumulated ones when empty.  stdout "a", stdout "b", result{stdout ""}
\* gives "ab"; stdout "hello", result{value, stdout "hello"} gives "hello".
C10_ResultBackfill ==
    /\ [][MergedResult =>
            LET p == Unmarshal(Last(events').json) IN
            /\ result'.Value = p.Value
            /\ result'.DurationMillis = p.DurationMillis
            /\ result'.Stdout = (IF p.Stdout = "" THEN result.Stdout ELSE p.Stdout)
            /\ result'.Stderr = (IF p.Stderr = "" THEN result.Stderr ELSE p.Stderr)
            /\ result'.ToolCalls = (IF p.ToolCalls = <<>> THEN result.ToolCalls
                                    ELSE p.ToolCalls)]_vars
    /\ []((/\ Len(events) = 3
            /\ events[1].Name = "stdout" /\ events[1].Data = "a"
            /\ events[2].Name = "stdout" /\ events[2].Data = "b"
            /\ events[3].Name = "result" /\ events[3].json.valid
            /\ Unmarshal(events[3].json).Stdout = "") => result.Stdout = "ab")
    /\ []((/\ Len(events) = 2
            /\ events[1].Name = "stdout" /\ events[1].Data = "hello"
            /\ events[2].Name = "result" /\ events[2].json.valid
            /\ Unmarshal(events[2].json).Stdout = "hello") =>
                 (result.Stdout = "hello" /\ result.Value = Unmarshal(events[2].json).Value))

\* C10 witness: stdout "a", stdout "b", then result{value "ok", stdout ""}:
\* the merged result has value "ok" and stdout "ab", and the attempt
\* returned it
C10_Witness ==
    /\ pc = "done"
    /\ Len(events) = 3
    /\ events[1].Data = "a" /\ events[2].Data = "b"
    /\ events[3].Name = "result" /\ events[3].json.valid
    /\ Unmarshal(events[3].json).Value = "ok"
    /\ retResp.Result.Stdout = "ab"
    /\ retResp.Result.Value = "ok"
    /\ retResp.Result.DurationMillis = 5

\* a step of readStream that took one more event from the decoder
ReadEvent ==
    /\ pc = "stream"
    /\ Len(events') = Len(events) + 1

\* a `result` event whose data is not valid JSON
BadResult(ev) == ev.Name = "result" /\ ~ev.json.valid

KeptByMerger(ev) == ~BadResult(ev)

RECURSIVE FoldEvents(_, _)
\* the accumulation after the events evs, starting from acc
FoldEvents(acc, evs) ==
    IF evs = <<>> THEN acc
    ELSE FoldEvents(MergeEvent(acc, Head(evs)), Tail(evs))

NoErrorEvent == \A i \in 1 .. Len(events) : events[i].Name # "error"

\* C12: a `result` event whose data is not valid JSON changes nothing: the
\* accumulation is what it was, the attempt goes on reading, and the
\* accumulation is at all times what the same events without the
\* unparsable ones give.
C12_BadResultDropped ==
    /\ [][(ReadEvent /\ BadResult(Last(events'))) =>
            /\ result' = result
            /\ pc' = "stream"
            /\ attemptErr' = attemptErr /\ attemptResp' = attemptResp
            /\ outcomes' = outcomes]_vars
    /\ [](NoErrorEvent =>
            result = FoldEvents(ZeroPayload, SelectSeq(events, KeptByMerger)))

\* C12 witness: stdout "a", an unparsable result, stdout "b": the call
\* returns stdout "ab"
C12_Witness ==
    /\ pc = "done"
    /\ Len(events) = 3
    /\ events[1].Name = "stdout" /\ events[1].Data = "a"
    /\ BadResult(events[2])
    /\ events[3].Name = "stdout" /\ events[3].Data = "b"
    /\ retErr = NilErr
    /\ retResp.Result.Stdout = "ab"

\* C13: an `error` event is the last event read from its stream; the
\* attempt returns at once an ErrRemoteExecutionFailed error whose message
\* is the event's data, and an empty response, whatever was accumulated.
C13_ErrorEventAborts ==
    \A i \in 1 .. Len(events) :
        events[i].Name = "error" =>
            /\ i = Len(events)
            /\ pc \in {"returned", "loop", "done"}
            /\ Last(outcomes) = "fail"
            /\ attemptErr.is = {"ErrRemoteExecutionFailed"}
            /\ attemptErr.detail = events[i].Data
            /\ attemptResp = EmptyResponse

\* C13 witness: stdout "a" then error "boom": the attempt returned the
\* error "boom" and no result
C13_Witness ==
    /\ pc = "returned"
    /\ Len(events) = 2
    /\ events[1].Name = "stdout" /\ events[1].Data = "a"
    /\ events[2].Name = "error"
    /\ result.Stdout = "a"
    /\ attemptErr.detail = "boom"
    /\ attemptResp = EmptyResponse

RECURSIVE ConcatData(_, _)
\* the data of the events of evs named name, concatenated in order
ConcatData(evs, name) ==
    IF evs = <<>> THEN ""
    ELSE (IF Head(evs).Name = name THEN Head(evs).Data ELSE "")
             \o ConcatData(Tail(evs), name)

\* C14: without a `result` event, the accumulated stdout is the data of
\* the stdout events concatenated in stream order, and the accumulated
\* stderr the same of the stderr events.
C14_OutputConcatenated ==
    (NoErrorEvent /\ \A i \in 1 .. Len(events) : events[i].Name # "result") =>
        /\ result.Stdout = ConcatData(events, "stdout")
        /\ result.Stderr = ConcatData(events, "stderr")
        /\ result.Value = "" /\ result.ToolCalls = <<>>

\* C14 witness: stdout "a", stderr "x", stdout "b" returned as stdout "ab"
\* and stderr "x"
C14_Witness ==
    /\ pc = "done"
    /\ Len(events) = 3
    /\ events[1].Name = "stdout" /\ events[1].Data = "a"
    /\ events[2].Name = "stderr" /\ events[2].Data = "x"
    /\ events[3].Name = "stdout" /\ events[3].Data = "b"
    /\ retErr = NilErr
    /\ retResp.Result.Stdout = "ab" /\ retResp.Result.Stderr = "x"

\* a step of readStream on which the decoder reported end-of-stream
EndOfStream ==
    /\ pc = "stream" /\ pc' = "returned"
    /\ events' = events
    /\ attemptErr'.kind # "stream decode"

\* C15: at end-of-stream readStream succeeds with the accumulation, with
\* or without a `result` event, and Execute returns it as the response's
\* result with a nil error.
C15_CleanEndSucceeds ==
    /\ [][EndOfStream =>
            /\ attemptErr' = NilErr
            /\ attemptResp' = ResponseOf(result)
            /\ attemptResp'.Result = FoldEvents(ZeroPayload, events)]_vars
    /\ []((pc = "done" /\ retErr = NilErr /\ Classify(resp, stream) = "stream") =>
            /\ retResp.hasResult
            /\ retResp.Result = result)

\* C15 witness: an empty stream: Execute returns the empty result, nil error
C15_Witness ==
    /\ pc = "done"
    /\ stream /\ resp.ContentType = "text/event-stream"
    /\ events = <<>>
    /\ retErr = NilErr
    /\ retResp = ResponseOf(ZeroPayload)

OkStatus == resp.StatusCode >= 200 /\ resp.StatusCode < 300

\* streaming was requested and the answer declares an event stream
StreamAnswer == stream /\ resp.ContentType # "application/json"

\* C16: a 2xx answer goes to the stream decoder and merger exactly when
\* streaming was requested and the answer declares the event-stream
\* content type; any other 2xx answer is read whole and decoded as one
\* JSON envelope, and a body that is not JSON gives a retryable
\* ErrRemoteExecutionFailed error.
C16_StreamOrEnvelope ==
    /\ pc = "stream" => (OkStatus /\ StreamAnswer)
    /\ pc = "body" => (OkStatus /\ ~StreamAnswer)
    /\ (pc \in {"returned", "done"} /\ OkStatus /\ StreamAnswer) =>
          attemptErr.kind \in {"nil", "stream decode", "event"}
    /\ (pc \in {"returned", "done"} /\ OkStatus /\ ~StreamAnswer) =>
          /\ attemptErr.kind \in {"nil", "read response", "decode response"}
          /\ events = <<>>
    /\ attemptErr.kind = "decode response" =>
          /\ attemptErr.is = {"ErrRemoteExecutionFailed"}
          /\ isRetryable(attemptErr)
          /\ pc = "done" => attempt = client.maxRetries

\* C16 witness: streaming requested, the answer is application/json: the
\* body was decoded as an envelope
C16_Witness ==
    /\ pc = "done"
    /\ stream
    /\ resp.StatusCode = 200 /\ resp.ContentType = "application/json"
    /\ events = <<>>
    /\ retResp.hasResult /\ retResp.Result.Stdout = "ok"

\* C18: each request is signed with the clock's time at the moment the
\* request is built, over that timestamp, "." and the call's payload; all
\* requests of a call carry the same payload, and a request built after
\* the clock moved carries another timestamp and signature than the
\* earlier ones.
C18_FreshSignature ==
    /\ [][Len(sent') = Len(sent) + 1 =>
            /\ Last(sent').signed
            /\ Last(sent').timestamp = now
            /\ Last(sent').signature = <<cfg.AuthToken, now, ".", Last(sent').body>>
            /\ \A i \in 1 .. Len(sent) : sent'[i] = sent[i]]_vars
    /\ [](\A i, j \in 1 .. Len(sent) :
            /\ sent[i].body = sent[j].body
            /\ i < j => sent[i].timestamp <= sent[j].timestamp
            /\ sent[i].timestamp # sent[j].timestamp =>
                  sent[i].signature # sent[j].signature)

\* C18 witness: a retry made after the clock moved: same payload, another
\* timestamp and signature
C18_Witness ==
    /\ Len(sent) = 2
    /\ sent[1].body = sent[2].body
    /\ sent[1].timestamp = 0 /\ sent[2].timestamp = 1
    /\ sent[1].signature # sent[2].signature

\* C19: without an endpoint NewClient returns no client and
\* ErrRemoteNotAvailable; no Execute call starts, no request is built and
\* nothing is retried.  With an endpoint it returns a client and no error.
C19_NoEndpoint ==
    /\ cfg.Endpoint = "" =>
          /\ ~client.valid
          /\ newErr.is = {"ErrRemoteNotAvailable"}
          /\ pc = "idle"
          /\ requests = <<>> /\ outcomes = <<>> /\ attempt = 0
    /\ cfg.Endpoint # "" => (client.valid /\ newErr = NilErr)

\* C19 witness: NewClient was given an empty endpoint
C19_Witness ==
    /\ cfg.Endpoint = ""
    /\ client = NoClient
    /\ newErr.kind = "not available"

\* ---- the frames of a line sequence, read off the lines themselves ----

IsField(line) == HasPrefix(line, "event:") \/ HasPrefix(line, "data:")

\* the runs of lines between blank lines, each with whether a blank line
\* closed it
RECURSIVE Split(_, _)
Split(lines, run) ==
    IF lines = <<>>
    THEN IF run = <<>> THEN <<>> ELSE <<[ls |-> run, closed |-> FALSE]>>
    ELSE IF Head(lines) = Blank
    THEN <<[ls |-> run, closed |-> TRUE]>> \o Split(Tail(lines), <<>>)
    ELSE Split(Tail(lines), Append(run, Head(lines)))

HasFieldLine(f) == \E i \in 1 .. Len(f.ls) : IsField(f.ls[i])

IsClosed(f) == f.closed

\* the frames: the runs that hold at least one event: or data: line
Frames(lines) == SelectSeq(Split(lines, <<>>), HasFieldLine)

ClosedFrames(lines) == SelectSeq(Frames(lines), IsClosed)

\* the name the frame's last event: line gives, "" without one
FrameName(f) ==
    LET at == {i \in 1 .. Len(f.ls) : HasPrefix(f.ls[i], "event:")} IN
    IF at = {} THEN ""
    ELSE TrimSpace(Tail(f.ls[CHOOSE i \in at : \A j \in at : j <= i]))

HasDataLine(f) == \E i \in 1 .. Len(f.ls) : HasPrefix(f.ls[i], "data:")

\* the events are those of the frames, in order
EventsOfFrames(evs, frames) ==
    /\ Len(evs) = Len(frames)
    /\ \A k \in 1 .. Len(evs) :
          /\ k <= Len(frames) => evs[k].Name = FrameName(frames[k])
          /\ k <= Len(frames) /\ ~HasDataLine(frames[k]) => evs[k].Data = ""

\* C11: once end-of-stream is signalled, the decoder has emitted one event
\* per frame of the stream, in the order of the frames, the last frame
\* included when no blank line closed it.
C11_OnePerFrame ==
    dstate = "eof" => EventsOfFrames(dout, Frames(dlines))

\* C20: while the source delivers lines, the events emitted are those of the
\* frames closed by a blank line, one per frame that holds an event: or
\* data: line (also when its only line is an empty data: line), none for
\* a blank line with nothing before it, each with its own frame's name.
C20_FlushPerFrame ==
    dsrc = "open" => EventsOfFrames(dout, ClosedFrames(dlines))

\* what one attempt returns for the answer g the server gave it, by itself
AttemptOutcome(g) ==
    IF g.err # NilErr THEN [resp |-> EmptyResponse, err |-> g.err]
    ELSE IF g.evs # <<>> /\ Last(g.evs).Name = "error"
    THEN [resp |-> EmptyResponse,
          err |-> ErrorfText("ErrRemoteExecutionFailed", Last(g.evs).Data)]
    ELSE [resp |-> ResponseOf(FoldEvents(ZeroPayload, g.evs)), err |-> NilErr]

RECURSIVE Replay(_, _, _)
\* what a call running alone returns for the answers got, from attempt a on
Replay(got, a, maxRetries) ==
    IF a + 1 > Len(got)
    THEN [resp |-> EmptyResponse, err |-> NilErr, attempts |-> 0]
    ELSE LET o == AttemptOutcome(got[a + 1])
             d == LoopDecision(o.err, a, maxRetries) IN
         IF d = "return" THEN [resp |-> o.resp, err |-> NilErr, attempts |-> a + 1]
         ELSE IF d = "fail"
         THEN [resp |-> EmptyResponse, err |-> o.err, attempts |-> a + 1]
         ELSE Replay(got, a + 1, maxRetries)

\* C17: with two Execute calls interleaved on one client, the client's
\* fields stay as NewClient set them, the accumulation of a call's running
\* attempt is made of that attempt's events alone, and a finished call has
\* made the attempts and returns the outcome that the answers to its own
\* attempts give when the call runs alone.
C17_CallsIndependent ==
    /\ client = NewClient(cfg).client
    /\ \A k \in CallIds :
          /\ calls[k].pc = "stream" =>
                calls[k].result = FoldEvents(ZeroPayload, calls[k].events)
          /\ calls[k].attempt <= client.maxRetries
          /\ calls[k].pc = "done" =>
                LET r == Replay(calls[k].got, 0, client.maxRetries) IN
                /\ calls[k].retResp = r.resp
                /\ calls[k].retErr = r.err
                /\ Len(calls[k].got) = r.attempts
                /\ calls[k].attempt + 1 = r.attempts

\* C17 witness: one call has returned a result on its retry while the
\* other is in the stream of its own retry, with an accumulation of its own
C17_Witness ==
    /\ calls[1].pc = "done"
    /\ calls[1].retErr = NilErr
    /\ calls[1].retResp.Result.Value = "ok"
    /\ Len(calls[1].got) = 2
    /\ calls[2].pc = "stream"
    /\ calls[2].attempt = 1
    /\ calls[2].result.Stdout = "a"

\* the lines read since the last blank line
RECURSIVE CurrentRun(_)
CurrentRun(lines) ==
    IF lines = <<>> \/ lines[Len(lines)] = Blank THEN <<>>
    ELSE Append(CurrentRun(SubSeq(lines, 1, Len(lines) - 1)), lines[Len(lines)])

IsDataLine(line) == HasPrefix(line, "data:")

\* the trimmed contents of the data: lines among ls, in order
DataContents(ls) ==
    LET ds == SelectSeq(ls, IsDataLine) IN
    [i \in 1 .. Len(ds) |-> TrimSpace(Tail(ds[i]))]

\* the texts joined with one newline between neighbours
RECURSIVE JoinNewline(_)
JoinNewline(texts) ==
    IF Len(texts) = 0 THEN ""
    ELSE IF Len(texts) = 1 THEN texts[1]
    ELSE texts[1] \o "\n" \o JoinNewline(Tail(texts))

\* C21: whenever the decoder emits an event for a frame that holds n >= 1
\* data: lines, the event's data is the trimmed contents of those lines
\* joined in order with n-1 newlines, empty contents included.
C21_DataJoined ==
    [][Len(dout') = Len(dout) + 1 /\ DataContents(CurrentRun(dlines)) # <<>> =>
          Last(dout').Data = JoinNewline(DataContents(CurrentRun(dlines)))]_vars

\* C22: when the decoder's source fails, next() returns the error and not
\* io.EOF, the frame accumulated so far is not emitted, and readStream
\* returns the empty result with an ErrRemoteExecutionFailed "stream
\* decode" error, whatever it had merged; io.EOF is reported only for a
\* source that ended, and then readStream returns no error.
C22_DecodeErrorNoResult ==
    /\ [][dsrc = "open" /\ dsrc' = "failed" =>
            /\ dout' = dout
            /\ dstate' = "err"
            /\ rret'.returned
            /\ rret'.payload = ZeroPayload
            /\ rret'.err.is = {"ErrRemoteExecutionFailed"}
            /\ rret'.err.kind = "stream decode"
            /\ StreamResponse(rret'.payload, rret'.err) = EmptyResponse]_vars
    /\ [](dstate = "eof" => dsrc = "ended" /\ rret.err = NilErr)
    /\ [](dstate = "err" => dsrc = "failed" /\ rret.err # NilErr)

\* C22 witness: the source failed in the middle of a frame, after a stdout
\* event had been merged
C22_Witness ==
    /\ dstate = "err"
    /\ Len(dout) = 1
    /\ dout[1].Name = "stdout"
    /\ rresult.Stdout = "a"
    /\ HasDataLine([ls |-> CurrentRun(dlines)])
    /\ rret.returned
    /\ rret.payload = ZeroPayload
    /\ rret.err.detail = "token too long"

\* C23: what the loop does after an attempt is given by the attempt's
\* error, the attempt index and the retry bound alone, with or without a
\* logger; with a logger the notifications are 1, 2, ... one per retry
\* made (attempts made minus one when the call is over, none for the
\* failure that is returned), without a logger there are none.
C23_LoggerObserves ==
    /\ [][pc = "returned" /\ pc' # "returned" =>
            LET d == LoopDecision(attemptErr, attempt, client.maxRetries) IN
            /\ d = "retry" =>
                  /\ pc' = "loop" /\ attempt' = attempt + 1
                  /\ retResp' = retResp /\ retErr' = retErr
                  /\ Len(logged') = Len(logged) + (IF client.logger THEN 1 ELSE 0)
            /\ d = "return" =>
                  /\ pc' = "done" /\ attempt' = attempt /\ logged' = logged
                  /\ retResp' = attemptResp /\ retErr' = NilErr
            /\ d = "fail" =>
                  /\ pc' = "done" /\ attempt' = attempt /\ logged' = logged
                  /\ retResp' = EmptyResponse /\ retErr' = attemptErr]_vars
    /\ [](logged = IF client.logger THEN [i \in 1 .. attempt |-> i] ELSE <<>>)
    /\ [](pc = "done" /\ requests # <<>> /\ client.logger =>
            Len(logged) = Len(requests) - 1)

\* C23 witness: a logger, two retries and a third attempt that fails and
\* is returned: notifications 1 and 2
C23_Witness ==
    /\ client.logger
    /\ pc = "done"
    /\ Len(requests) = 3
    /\ retErr # NilErr
    /\ logged = <<1, 2>>

\* the names readStream's switch has a case for
KnownNames == {"stdout", "stderr", "result", "error"}

KnownName(ev) == ev.Name \in KnownNames

\* C24: an event whose name is none of stdout, stderr, result, error (the
\* empty name included) leaves the accumulation as it is and the stream
\* is read on; the accumulation is the one of the events read with these
\* events left out.
C24_UnknownIgnored ==
    /\ [][(ReadEvent /\ ~KnownName(Last(events'))) =>
            /\ result' = result
            /\ pc' = "stream"
            /\ attemptErr' = attemptErr /\ attemptResp' = attemptResp
            /\ outcomes' = outcomes]_vars
    /\ [](result = FoldEvents(ZeroPayload, SelectSeq(events, KnownName)))
    /\ [](pc = "done" /\ retErr = NilErr /\ Classify(resp, stream) = "stream" =>
            retResp = ResponseOf(FoldEvents(ZeroPayload, SelectSeq(events, KnownName))))

\* C24 witness: stdout "a", a ping event, an event without a name: the
\* call returns stdout "a"
C24_Witness ==
    /\ pc = "done"
    /\ Len(events) = 3
    /\ events[1].Name = "stdout" /\ events[1].Data = "a"
    /\ events[2].Name = "ping"
    /\ events[3].Name = ""
    /\ retErr = NilErr
    /\ retResp.Result.Stdout = "a"
    /\ retResp.Result.Value = ""

\* C25: an Execute call that enters doRequest makes at least one and at
\* most maxRetries+1 attempts and then returns; the attempt counter never
\* decreases and stays within 0 .. maxRetries, so the return after the
\* loop ("retries exhausted") is not reached.
C25_BoundedAttempts ==
    /\ [](attempt \in 0 .. client.maxRetries)
    /\ [](Len(requests) <= client.maxRetries + 1)
    /\ [](pc \notin {"idle", "loop", "done"} => Len(requests) = attempt + 1)
    /\ [](pc = "done" /\ retErr.kind # "marshal request" =>
            /\ Len(requests) >= 1
            /\ Len(outcomes) = Len(requests))
    /\ [](retErr.kind # "retries exhausted")
    /\ [][attempt' >= attempt]_vars
    /\ (pc = "loop" ~> pc = "done")

\* C25 witness: MaxRetries 2, three attempts made, the call has returned
C25_Witness ==
    /\ cfg.MaxRetries = 2
    /\ pc = "done"
    /\ Len(requests) = 3
    /\ attempt = 2

\* C26: Run issues no Delete before it returns; when it has returned, it has
\* issued exactly one Delete, of the Job that Create returned and with the
\* background context, if the Job was created, whatever the exit path and
\* the state of the caller's context, and none if the Job was not created.
C26_DeleteOnce ==
    /\ kpc # "done" => kdeletes = <<>>
    /\ kpc = "done" /\ kcreated # "" =>
          kdeletes = <<[job |-> kcreated, ctx |-> "background"]>>
    /\ kpc = "done" /\ kcreated = "" => kdeletes = <<>>
    /\ kret.err.is = {"ErrPodCreationFailed"} => (kcreated = "" /\ kdeletes = <<>>)
    /\ kpc = "done" <=> kret.returned

\* C26 witness: the caller's context was canceled while Run waited for the
\* Job; Run returned the context's error and the Delete was issued
C26_Witness ==
    /\ kpc = "done"
    /\ kctx = "canceled"
    /\ kret.err = CtxError("Canceled")
    /\ kcreated = "toolrun-1a2b3c4d"
    /\ kdeletes = <<[job |-> "toolrun-1a2b3c4d", ctx |-> "background"]>>

JobFailed == ErrorfText("ErrPodExecutionFailed", "job failed")

\* C27: a poll whose status read fails returns an ErrPodExecutionFailed
\* error; a poll that reads Succeeded > 0 returns nil, also when Failed > 0;
\* one that reads Failed > 0 only returns the job-failed error; otherwise
\* the loop waits.  nil is returned only after a poll that read
\* Succeeded > 0, the context's error only for a canceled context, at most
\* one poll starts after the cancellation, and a canceled wait returns.
C27_PollLoop ==
    /\ [][kpc = "get" /\ kpc' # "get" =>
            \/ /\ kwait'.returned
               /\ kwait'.err.is = {"ErrPodExecutionFailed"}
               /\ kwait'.err.kind = "get"
            \/ /\ kstatus.Succeeded > 0
               /\ kwait' = Returned(NilErr)
            \/ /\ kstatus.Succeeded = 0 /\ kstatus.Failed > 0
               /\ kwait' = Returned(JobFailed)
            \/ /\ kstatus = NoStatus
               /\ kpc' = "select"
               /\ ~kwait'.returned]_vars
    /\ [](kwait.returned /\ kwait.err = NilErr => kseen.Succeeded > 0)
    /\ [](kpc = "select" => kseen = NoStatus)
    /\ [](kwait.returned /\ kwait.err.kind = "context" =>
            (kctx = "canceled" /\ kwait.err = CtxError("Canceled")))
    /\ [](kpolls.afterCancel <= 1)
    /\ ((kctx = "canceled" /\ kpc \in {"get", "select"}) ~> kwait.returned)

\* C27 witness: the interval passed and the context was canceled before the
\* select ran; one more poll found the Job pending, then the wait returned
\* the context's error
C27_Witness ==
    /\ kwait = Returned(CtxError("Canceled"))
    /\ kpolls = [started |-> 2, afterCancel |-> 1]
    /\ kseen = NoStatus

====
